---- MODULE Spec2Model ----
(***************************************************************************)
(* The synthesis workflow controller of the VoiceEngine component          *)
(* (src/frondend/components/voice-engine.tsx) and the API client it calls  *)
(* (src/unnamed/part_001).                                                 *)
(*                                                                         *)
(* One action is one handler run to completion followed by React's commit  *)
(* of the state it set: the passive effect of lines 179-185 (the script    *)
(* toggle) runs with every commit, so every action that sets `state` or    *)
(* `scriptText` ends with ScriptToggle.  An awaited network call and a     *)
(* setTimeout split a handler into the part before and the continuation,   *)
(* which is an action of its own.                                          *)
(***************************************************************************)
EXTENDS Integers, Sequences, FiniteSets, TLC

(* ------------------------------ bounds --------------------------------- *)
\* longest text the user types into the Textarea in one edit
MaxTyped == 2
\* longest script text (insertTag appends up to three tokens)
MaxScriptLen == 4
\* EventSources created in one behaviour
MaxStreams == 2

(* --------------------------- value domains ----------------------------- *)
Null == "null"
\* useRef<EventSource | null>(null): stream ids are 1, 2, ...
NoStream == 0

EngineState ==
    {"idle", "audio-uploaded", "processing", "processed",
     "script-uploaded", "generating", "complete"}

Files == {"sample.wav", "other.wav"}
TaskIds == {"abc123", "def456"}

\* the characters of a script: a letter, a blank, a line break
Chars == {"x", " ", "\n"}
Tags == {"[S1]", "[S2]"}
Whitespace == {" ", "\n"}

BoundedSeq(S, n) == UNION {[1..k -> S] : k \in 0..n}
TypedTexts == BoundedSeq(Chars, MaxTyped)

\* POST /api/upload-audio, 2xx body
UploadResponses ==
    {[task_id |-> t, quality_score |-> 87] : t \in TaskIds}
\* POST /api/upload-audio, the ways it fails: a non-2xx response whose body
\* has a detail, a non-2xx response without one, a rejected fetch
UploadFailures ==
    {[kind |-> "http", status |-> 422, detail |-> "Unsupported audio"],
     [kind |-> "http", status |-> 500, detail |-> Null],
     [kind |-> "network", status |-> 0, detail |-> Null]}

\* progress {status, progress, stage}
ProgressEvents ==
    {[progress |-> 42, stage |-> "Vocoding"], [progress |-> 90, stage |-> ""]}
\* complete {task_id, duration_formatted, sample_rate, file_size_bytes}
CompleteEvents ==
    {[duration_formatted |-> "00:12.34s", file_size_bytes |-> 2345678]}
\* what the "error" listener can receive: a MessageEvent whose data parses to
\* an object with an error message, parses to an object without one, does not
\* parse, or a plain Event of the connection (no data)
ErrorEvents ==
    {[message |-> TRUE, data |-> "json", error |-> "Out of memory"],
     [message |-> TRUE, data |-> "json", error |-> Null],
     [message |-> TRUE, data |-> "garbage", error |-> Null],
     [message |-> FALSE, data |-> Null, error |-> Null]}

\* GET /api/health bodies
HealthResponses ==
    {[model_loaded |-> TRUE, model_loading |-> FALSE, model_status |-> "ready", model_error |-> Null],
     [model_loaded |-> FALSE, model_loading |-> TRUE, model_status |-> "downloading", model_error |-> Null],
     [model_loaded |-> FALSE, model_loading |-> FALSE, model_status |-> "idle", model_error |-> Null],
     [model_loaded |-> FALSE, model_loading |-> FALSE, model_status |-> "failed", model_error |-> "CUDA OOM"],
     [model_loaded |-> FALSE, model_loading |-> FALSE, model_status |-> "failed", model_error |-> Null]}

None == << >>
Some(x) == << x >>

\* the values an optional number of GenerateParams can hold
JsNull == [kind |-> "null"]
Undefined == [kind |-> "undefined"]
Num(n) == [kind |-> "number", value |-> n]
OptionalValues == {JsNull, Undefined, Num(0), Num(1)}
\* the optional parameters, in the order getGenerateUrl tests them
OptionalKeys ==
    <<"max_tokens", "cfg_scale", "temperature", "top_p", "cfg_filter_top_k">>
\* the arguments of getGenerateUrl
GenerateParams ==
    [task_id : TaskIds, text : {<<"x">>},
     max_tokens : OptionalValues, cfg_scale : OptionalValues,
     temperature : OptionalValues, top_p : OptionalValues,
     cfg_filter_top_k : OptionalValues]

\* the argument recorded for a handler that takes none
NoArg == [none |-> TRUE]

(* ------------------------------- state --------------------------------- *)
VARIABLES
    \* useState of the component (lines 34-48)
    state, audioFile, scriptText, progress, generationStage, isPlaying, error,
    modelReady, modelLoading, modelStatus, taskId, audioMetadata, outputMetadata,
    \* useRef (line 50)
    eventSourceRef,
    \* the EventSources: how many were created, which are open
    esCreated, esOpen,
    \* the EventSources close() was called on, and whether close() was ever
    \* called on one it had been called on before
    esClosed, doubleClose,
    \* continuations in flight: awaited uploads, the two deferred setState
    uploadsInFlight, processedTimers, completeTimers,
    \* the health poll loop: where it is, and its `cancelled` flag
    pollPc, cancelled,
    \* whether the component is mounted
    mounted,
    \* the href of the last download link clicked
    downloadHref,
    \* the handler, continuation or function that ran last and the input it
    \* ran with (for a function of the API client: also what it returned)
    lastOp, lastArg

sessionVars ==
    <<state, audioFile, scriptText, progress, generationStage, isPlaying, error,
      taskId, audioMetadata, outputMetadata>>
modelVars == <<modelReady, modelLoading, modelStatus>>
streamVars == <<eventSourceRef, esCreated, esOpen, esClosed, doubleClose>>
pendingVars == <<uploadsInFlight, processedTimers, completeTimers>>
pollVars == <<pollPc, cancelled>>
vars ==
    <<sessionVars, modelVars, streamVars, pendingVars, pollVars, mounted,
      downloadHref, lastOp, lastArg>>

(* --------------------------- pure functions ---------------------------- *)
RECURSIVE TrimStart(_)
TrimStart(s) ==
    IF s # << >> /\ Head(s) \in Whitespace THEN TrimStart(Tail(s)) ELSE s

RECURSIVE TrimEnd(_)
TrimEnd(s) ==
    IF s # << >> /\ s[Len(s)] \in Whitespace
    THEN TrimEnd(SubSeq(s, 1, Len(s) - 1))
    ELSE s

\* String.prototype.trim
Trim(s) == TrimEnd(TrimStart(s))

\* a string used as a condition: the empty string is falsy
Truthy(s) == s # << >>

\* the effect without its else-branch: it never goes back to "processed"
ScriptToggleOneWay(st, txt) ==
    IF st = "processed" /\ Truthy(Trim(txt)) THEN "script-uploaded" ELSE st

\* the passive effect "Track script text changes to toggle state"
ScriptToggle(st, txt) ==
    IF st = "processed" /\ Truthy(Trim(txt)) THEN "script-uploaded"
    ELSE IF st = "script-uploaded" /\ ~Truthy(Trim(txt)) THEN "processed"
    ELSE st

\* the updater of insertTag
InsertTagText(prev, tag) ==
    LET needsSpace ==
            Len(prev) > 0 /\ prev[Len(prev)] # " " /\ prev[Len(prev)] # "\n"
    IN  prev \o (IF needsSpace THEN <<" ">> ELSE << >>) \o <<tag, " ">>

\* uploadAudio throwing the body's detail with no fallback
UploadErrorMessageDetailOnly(f) == f.detail

\* the message of the Error uploadAudio throws, as handleProcessAudio shows it
UploadErrorMessage(f) ==
    IF f.kind = "network" THEN "Failed to fetch"
    ELSE IF f.detail # Null THEN f.detail
    ELSE IF f.status = 500 THEN "Upload failed (500)"
    ELSE "Upload failed (422)"

\* the "error" listener ignoring the payload
GenerationErrorMessageGeneric(e) ==
    IF e.message /\ e.data # Null
    THEN "Generation failed"
    ELSE "Connection to server lost"

\* the message the "error" listener sets
GenerationErrorMessage(e) ==
    IF e.message /\ e.data # Null
    THEN IF e.data = "json" /\ e.error # Null THEN e.error
         ELSE "Generation failed"
    ELSE "Connection to server lost"

\* the model's own error text, with nothing in front and no fallback
ModelFailedMessageRaw(h) == h.model_error

\* the message the poller sets when the model failed to load
ModelFailedMessage(h) ==
    IF h.model_error # Null
    THEN "Model failed to load: CUDA OOM"
    ELSE "Model failed to load: unknown error"

API_URL == "http://localhost:8000"
getDownloadUrl(t) == <<API_URL, "/api/download/", t>>

\* URLSearchParams.set: replace the value of the key, or append the pair
SearchParamsSet(q, k, v) ==
    IF \E i \in DOMAIN q : q[i][1] = k
    THEN [i \in DOMAIN q |-> IF q[i][1] = k THEN <<k, v>> ELSE q[i]]
    ELSE Append(q, <<k, v>>)

\* String(n) of a number
String(v) == ToString(v.value)

\* a test by truthiness, `if (params.x)`, which drops the number 0
NotNullishTruthy(v) == v.kind = "number" /\ v.value # 0

\* params.x != null: false for null and for undefined
NotNullish(v) == v.kind \notin {"null", "undefined"}

\* the query after the optional parameters OptionalKeys[i..] were handled
RECURSIVE SetOptional(_, _, _)
SetOptional(q, params, i) ==
    IF i > Len(OptionalKeys) THEN q
    ELSE LET k == OptionalKeys[i]
         IN  SetOptional(
                 IF NotNullish(params[k])
                 THEN SearchParamsSet(q, k, String(params[k]))
                 ELSE q,
                 params, i + 1)

getGenerateUrl(params) ==
    LET q0 == SearchParamsSet(<< >>, "task_id", params.task_id)
        q1 == SearchParamsSet(q0, "text", params.text)
    IN  [base |-> API_URL, path |-> "/api/generate",
         query |-> SetOptional(q1, params, 1)]

\* a close() that was left out
EsCloseForgotten(open, es) == open

\* EventSource.close()
EsClose(open, es) == open \ {es}

\* the catch of handleProcessAudio going on to the script step
UploadFailureStateProcessed == "processed"
\* the catch of handleProcessAudio going back to the start
UploadFailureStateIdle == "idle"

\* the state the catch of handleProcessAudio sets
UploadFailureState == "audio-uploaded"


(* ------------------------------ initial -------------------------------- *)
Init ==
    /\ state = "idle"
    /\ audioFile = Null
    /\ scriptText = << >>
    /\ progress = 0
    /\ generationStage = ""
    /\ isPlaying = FALSE
    /\ error = Null
    /\ modelReady = FALSE
    /\ modelLoading = TRUE
    /\ modelStatus = "connecting"
    /\ taskId = Null
    /\ audioMetadata = None
    /\ outputMetadata = None
    /\ eventSourceRef = NoStream
    /\ esCreated = 0
    /\ esOpen = {}
    /\ esClosed = {}
    /\ doubleClose = FALSE
    /\ uploadsInFlight = 0
    /\ processedTimers = 0
    /\ completeTimers = 0
    \* the poll effect runs on mount and awaits its first checkHealth
    /\ pollPc = "query"
    /\ cancelled = FALSE
    /\ mounted = TRUE
    /\ downloadHref = None
    /\ lastOp = "mount"
    /\ lastArg = NoArg

(* ------------------------ what the render offers ----------------------- *)
\* an UploadZone rendered in every state
RenderUploadAlways == mounted

\* STEP 1 panel: the UploadZone
RenderUpload == mounted /\ state \in {"idle", "audio-uploaded"}
\* the Remove button of the UploadZone and the Process button
RenderFileControls == RenderUpload /\ audioFile # Null
\* STEP 3 panel: the tag buttons and the Textarea
RenderScript == mounted /\ state \in {"processed", "script-uploaded"}
\* the Generate button without disabled={!modelReady}
RenderGenerateNotGated == RenderScript /\ Truthy(Trim(scriptText))

\* the Generate button, rendered when the script is not blank and enabled
\* when the model is ready
RenderGenerate == RenderScript /\ Truthy(Trim(scriptText)) /\ modelReady
\* a STEP 5 panel, with Start Over, shown while generating as well
RenderCompleteWhileGenerating ==
    mounted /\ state \in {"generating", "complete"}

\* STEP 5 panel: playback, Download, Start Over
RenderComplete == mounted /\ state = "complete"
\* the error banner with its dismiss button
RenderError == mounted /\ error # Null

(* ------------------------------ handlers ------------------------------- *)
\* a call of es.close()
CloseStream(es) ==
    /\ esOpen' = EsClose(esOpen, es)
    /\ esClosed' = esClosed \cup {es}
    /\ doubleClose' = (doubleClose \/ es \in esClosed)

handleAudioSelect(file) ==
    /\ audioFile' = file
    /\ state' = ScriptToggle("audio-uploaded", scriptText)
    /\ error' = Null
    /\ lastOp' = "handleAudioSelect"
    /\ lastArg' = [file |-> file]
    /\ UNCHANGED <<scriptText, progress, generationStage, isPlaying, taskId,
                   audioMetadata, outputMetadata, modelVars, streamVars,
                   pendingVars, pollVars, mounted, downloadHref>>

handleAudioClear ==
    /\ audioFile' = Null
    /\ state' = ScriptToggle("idle", scriptText)
    /\ lastOp' = "handleAudioClear"
    /\ lastArg' = NoArg
    /\ UNCHANGED <<scriptText, progress, generationStage, isPlaying, error,
                   taskId, audioMetadata, outputMetadata, modelVars,
                   streamVars, pendingVars, pollVars, mounted, downloadHref>>

\* the guard of handleProcessAudio: if (!audioFile) return
ProcessGuard == audioFile # Null

\* handleProcessAudio up to its await
handleProcessAudio ==
    /\ lastOp' = "handleProcessAudio"
    /\ lastArg' = NoArg
    /\ IF ProcessGuard
       THEN /\ state' = ScriptToggle("processing", scriptText)
            /\ progress' = 0
            /\ error' = Null
            /\ uploadsInFlight' = uploadsInFlight + 1
       ELSE UNCHANGED <<state, progress, error, uploadsInFlight>>
    /\ UNCHANGED <<audioFile, scriptText, generationStage, isPlaying, taskId,
                   audioMetadata, outputMetadata, modelVars, streamVars,
                   processedTimers, completeTimers, pollVars, mounted,
                   downloadHref>>

\* handleProcessAudio after the await, uploadAudio resolved with `data`
UploadResolved(data) ==
    /\ uploadsInFlight > 0
    /\ uploadsInFlight' = uploadsInFlight - 1
    /\ processedTimers' = processedTimers + 1
    /\ IF mounted
       THEN /\ taskId' = data.task_id
            /\ audioMetadata' = Some(data)
            /\ progress' = 100
       ELSE UNCHANGED <<taskId, audioMetadata, progress>>
    /\ lastOp' = "UploadResolved"
    /\ lastArg' = data
    /\ UNCHANGED <<state, audioFile, scriptText, generationStage, isPlaying,
                   error, outputMetadata, modelVars, streamVars,
                   completeTimers, pollVars, mounted, downloadHref>>

\* handleProcessAudio after the await, uploadAudio threw
UploadRejected(f) ==
    /\ uploadsInFlight > 0
    /\ uploadsInFlight' = uploadsInFlight - 1
    /\ IF mounted
       THEN /\ error' = UploadErrorMessage(f)
            /\ state' = ScriptToggle(UploadFailureState, scriptText)
       ELSE UNCHANGED <<error, state>>
    /\ lastOp' = "UploadRejected"
    /\ lastArg' = f
    /\ UNCHANGED <<audioFile, scriptText, progress, generationStage,
                   isPlaying, taskId, audioMetadata, outputMetadata,
                   modelVars, streamVars, processedTimers, completeTimers,
                   pollVars, mounted, downloadHref>>

\* setTimeout(() => setState("processed"), 400)
ProcessedTimer ==
    /\ processedTimers > 0
    /\ processedTimers' = processedTimers - 1
    /\ IF mounted
       THEN state' = ScriptToggle("processed", scriptText)
       ELSE UNCHANGED state
    /\ lastOp' = "ProcessedTimer"
    /\ lastArg' = NoArg
    /\ UNCHANGED <<audioFile, scriptText, progress, generationStage,
                   isPlaying, error, taskId, audioMetadata, outputMetadata,
                   modelVars, streamVars, uploadsInFlight, completeTimers,
                   pollVars, mounted, downloadHref>>

\* the Textarea's onChange: setScriptText(e.target.value)
EditScript(v) ==
    /\ scriptText' = v
    /\ state' = ScriptToggle(state, v)
    /\ lastOp' = "EditScript"
    /\ lastArg' = [value |-> v]
    /\ UNCHANGED <<audioFile, progress, generationStage, isPlaying, error,
                   taskId, audioMetadata, outputMetadata, modelVars,
                   streamVars, pendingVars, pollVars, mounted, downloadHref>>

insertTag(tag) ==
    /\ scriptText' = InsertTagText(scriptText, tag)
    /\ state' =
          ScriptToggle(
              IF Truthy(Trim(scriptText)) /\ state = "processed"
              THEN "script-uploaded" ELSE state,
              scriptText')
    /\ lastOp' = "insertTag"
    /\ lastArg' = [tag |-> tag]
    /\ UNCHANGED <<audioFile, progress, generationStage, isPlaying, error,
                   taskId, audioMetadata, outputMetadata, modelVars,
                   streamVars, pendingVars, pollVars, mounted, downloadHref>>

\* the guard testing the text as typed, blanks included
GenerateGuardNoTrim == taskId # Null /\ Truthy(scriptText)

\* the guard of handleGenerateVoice: if (!taskId || !scriptText.trim()) return
GenerateGuard == taskId # Null /\ Truthy(Trim(scriptText))

handleGenerateVoice ==
    /\ lastOp' = "handleGenerateVoice"
    /\ lastArg' = NoArg
    /\ IF GenerateGuard
       THEN /\ state' = ScriptToggle("generating", scriptText)
            /\ progress' = 0
            /\ generationStage' = "Initializing"
            /\ error' = Null
            /\ esCreated' = esCreated + 1
            /\ esOpen' = esOpen \cup {esCreated + 1}
            /\ eventSourceRef' = esCreated + 1
            /\ UNCHANGED <<esClosed, doubleClose>>
       ELSE UNCHANGED <<state, progress, generationStage, error, streamVars>>
    /\ UNCHANGED <<audioFile, scriptText, isPlaying, taskId, audioMetadata,
                   outputMetadata, modelVars, pendingVars, pollVars, mounted,
                   downloadHref>>

\* the "progress" listener of stream es
EsProgress(es, d) ==
    /\ es \in esOpen
    /\ IF mounted
       THEN /\ progress' = d.progress
            /\ generationStage' = d.stage
       ELSE UNCHANGED <<progress, generationStage>>
    /\ lastOp' = "EsProgress"
    /\ lastArg' = d
    /\ UNCHANGED <<state, audioFile, scriptText, isPlaying, error, taskId,
                   audioMetadata, outputMetadata, modelVars, streamVars,
                   pendingVars, pollVars, mounted, downloadHref>>

\* the "complete" listener switching to complete at once, with no delay
EsCompleteAtOnce(es, d) ==
    /\ es \in esOpen
    /\ IF mounted
       THEN /\ outputMetadata' = Some(d)
            /\ progress' = 100
            /\ state' = ScriptToggle("complete", scriptText)
       ELSE UNCHANGED <<outputMetadata, progress, state>>
    /\ CloseStream(es)
    /\ eventSourceRef' = NoStream
    /\ UNCHANGED completeTimers
    /\ lastOp' = "EsComplete"
    /\ lastArg' = d
    /\ UNCHANGED <<audioFile, scriptText, generationStage, isPlaying,
                   error, taskId, audioMetadata, modelVars, esCreated,
                   uploadsInFlight, processedTimers, pollVars, mounted,
                   downloadHref>>

\* the "complete" listener of stream es
EsComplete(es, d) ==
    /\ es \in esOpen
    /\ IF mounted
       THEN /\ outputMetadata' = Some(d)
            /\ progress' = 100
       ELSE UNCHANGED <<outputMetadata, progress>>
    /\ CloseStream(es)
    /\ eventSourceRef' = NoStream
    /\ completeTimers' = completeTimers + 1
    /\ lastOp' = "EsComplete"
    /\ lastArg' = d
    /\ UNCHANGED <<state, audioFile, scriptText, generationStage, isPlaying,
                   error, taskId, audioMetadata, modelVars, esCreated,
                   uploadsInFlight, processedTimers, pollVars, mounted,
                   downloadHref>>

\* the "error" listener closing the stream but keeping the handle
EsErrorKeepsRef(es, e) ==
    /\ es \in esOpen
    /\ IF mounted
       THEN /\ error' = GenerationErrorMessage(e)
            /\ state' = ScriptToggle("script-uploaded", scriptText)
       ELSE UNCHANGED <<error, state>>
    /\ CloseStream(es)
    /\ UNCHANGED eventSourceRef
    /\ lastOp' = "EsError"
    /\ lastArg' = e
    /\ UNCHANGED <<audioFile, scriptText, progress, generationStage,
                   isPlaying, taskId, audioMetadata, outputMetadata,
                   modelVars, esCreated, pendingVars, pollVars, mounted,
                   downloadHref>>

\* the "error" listener of stream es
EsError(es, e) ==
    /\ es \in esOpen
    /\ IF mounted
       THEN /\ error' = GenerationErrorMessage(e)
            /\ state' = ScriptToggle("script-uploaded", scriptText)
       ELSE UNCHANGED <<error, state>>
    /\ CloseStream(es)
    /\ eventSourceRef' = NoStream
    /\ lastOp' = "EsError"
    /\ lastArg' = e
    /\ UNCHANGED <<audioFile, scriptText, progress, generationStage,
                   isPlaying, taskId, audioMetadata, outputMetadata,
                   modelVars, esCreated, pendingVars, pollVars, mounted,
                   downloadHref>>

\* setTimeout(() => setState("complete"), 600)
CompleteTimer ==
    /\ completeTimers > 0
    /\ completeTimers' = completeTimers - 1
    /\ IF mounted
       THEN state' = ScriptToggle("complete", scriptText)
       ELSE UNCHANGED state
    /\ lastOp' = "CompleteTimer"
    /\ lastArg' = NoArg
    /\ UNCHANGED <<audioFile, scriptText, progress, generationStage,
                   isPlaying, error, taskId, audioMetadata, outputMetadata,
                   modelVars, streamVars, uploadsInFlight, processedTimers,
                   pollVars, mounted, downloadHref>>

\* the guard of handleDownload: if (!taskId) return
DownloadGuard == taskId # Null

\* a download that also stops the playback
handleDownloadStopsPlayback ==
    /\ lastOp' = "handleDownload"
    /\ lastArg' = NoArg
    /\ IF DownloadGuard
       THEN downloadHref' = Some(getDownloadUrl(taskId))
       ELSE UNCHANGED downloadHref
    /\ isPlaying' = FALSE
    /\ UNCHANGED <<state, audioFile, scriptText, progress, generationStage,
                   error, taskId, audioMetadata, outputMetadata, modelVars,
                   streamVars, pendingVars, pollVars, mounted>>

handleDownload ==
    /\ lastOp' = "handleDownload"
    /\ lastArg' = NoArg
    /\ IF DownloadGuard
       THEN downloadHref' = Some(getDownloadUrl(taskId))
       ELSE UNCHANGED downloadHref
    /\ UNCHANGED <<sessionVars, modelVars, streamVars, pendingVars, pollVars,
                   mounted>>

\* handleReset without setScriptText("")
handleResetKeepsScript ==
    /\ IF eventSourceRef # NoStream
       THEN /\ CloseStream(eventSourceRef)
            /\ eventSourceRef' = NoStream
       ELSE UNCHANGED <<esOpen, esClosed, doubleClose, eventSourceRef>>
    /\ state' = ScriptToggle("idle", scriptText)
    /\ audioFile' = Null
    /\ UNCHANGED scriptText
    /\ progress' = 0
    /\ generationStage' = ""
    /\ isPlaying' = FALSE
    /\ error' = Null
    /\ taskId' = Null
    /\ audioMetadata' = None
    /\ outputMetadata' = None
    /\ lastOp' = "handleReset"
    /\ lastArg' = NoArg
    /\ UNCHANGED <<modelVars, esCreated, pendingVars, pollVars, mounted,
                   downloadHref>>

\* handleReset without setOutputMetadata(null)
handleResetKeepsOutput ==
    /\ IF eventSourceRef # NoStream
       THEN /\ CloseStream(eventSourceRef)
            /\ eventSourceRef' = NoStream
       ELSE UNCHANGED <<esOpen, esClosed, doubleClose, eventSourceRef>>
    /\ state' = ScriptToggle("idle", << >>)
    /\ audioFile' = Null
    /\ scriptText' = << >>
    /\ progress' = 0
    /\ generationStage' = ""
    /\ isPlaying' = FALSE
    /\ error' = Null
    /\ taskId' = Null
    /\ audioMetadata' = None
    /\ UNCHANGED outputMetadata
    /\ lastOp' = "handleReset"
    /\ lastArg' = NoArg
    /\ UNCHANGED <<modelVars, esCreated, pendingVars, pollVars, mounted,
                   downloadHref>>

\* a reset that also forgets that the model is ready
handleResetClearsModel ==
    /\ IF eventSourceRef # NoStream
       THEN /\ CloseStream(eventSourceRef)
            /\ eventSourceRef' = NoStream
       ELSE UNCHANGED <<esOpen, esClosed, doubleClose, eventSourceRef>>
    /\ state' = ScriptToggle("idle", << >>)
    /\ audioFile' = Null
    /\ scriptText' = << >>
    /\ progress' = 0
    /\ generationStage' = ""
    /\ isPlaying' = FALSE
    /\ error' = Null
    /\ taskId' = Null
    /\ audioMetadata' = None
    /\ outputMetadata' = None
    /\ lastOp' = "handleReset"
    /\ lastArg' = NoArg
    /\ modelReady' = FALSE
    /\ UNCHANGED <<modelLoading, modelStatus, esCreated, pendingVars,
                   pollVars, mounted, downloadHref>>

handleReset ==
    /\ IF eventSourceRef # NoStream
       THEN /\ CloseStream(eventSourceRef)
            /\ eventSourceRef' = NoStream
       ELSE UNCHANGED <<esOpen, esClosed, doubleClose, eventSourceRef>>
    /\ state' = ScriptToggle("idle", << >>)
    /\ audioFile' = Null
    /\ scriptText' = << >>
    /\ progress' = 0
    /\ generationStage' = ""
    /\ isPlaying' = FALSE
    /\ error' = Null
    /\ taskId' = Null
    /\ audioMetadata' = None
    /\ outputMetadata' = None
    /\ lastOp' = "handleReset"
    /\ lastArg' = NoArg
    /\ UNCHANGED <<modelVars, esCreated, pendingVars, pollVars, mounted,
                   downloadHref>>

togglePlayback ==
    /\ isPlaying' = ~isPlaying
    /\ lastOp' = "togglePlayback"
    /\ lastArg' = NoArg
    /\ UNCHANGED <<state, audioFile, scriptText, progress, generationStage,
                   error, taskId, audioMetadata, outputMetadata, modelVars,
                   streamVars, pendingVars, pollVars, mounted, downloadHref>>

\* the dismiss button of the error banner: setError(null)
DismissError ==
    /\ error' = Null
    /\ lastOp' = "DismissError"
    /\ lastArg' = NoArg
    /\ UNCHANGED <<state, audioFile, scriptText, progress, generationStage,
                   isPlaying, taskId, audioMetadata, outputMetadata,
                   modelVars, streamVars, pendingVars, pollVars, mounted,
                   downloadHref>>


(* ---------------------------- health poller ---------------------------- *)
\* a `continue` where the loop returns after model_loaded
PollAfterLoadedContinue == "query"

\* where the loop is after a response with model_loaded: `return`
PollAfterLoaded == "done"

\* no `return` after model_status "failed": the loop goes on to its wait
PollAfterFailedFallsThrough == "wait"

\* where the loop is after a response with model_status "failed": `return`
PollAfterFailed == "done"

\* a loaded branch that also clears the error message
HealthLoadedClearsError(h) ==
    /\ pollPc' = PollAfterLoaded
    /\ IF mounted
       THEN /\ modelStatus' = h.model_status
            /\ modelReady' = TRUE
            /\ modelLoading' = FALSE
            \* modelReady changed: the effect's cleanup runs, and the
            \* effect run again returns at `if (modelReady) return`
            /\ cancelled' = TRUE
       ELSE UNCHANGED <<modelVars, cancelled>>
    /\ error' = Null

\* poll: the response says model_loaded
HealthLoaded(h) ==
    /\ pollPc' = PollAfterLoaded
    /\ IF mounted
       THEN /\ modelStatus' = h.model_status
            /\ modelReady' = TRUE
            /\ modelLoading' = FALSE
            \* modelReady changed: the effect's cleanup runs, and the
            \* effect run again returns at `if (modelReady) return`
            /\ cancelled' = TRUE
       ELSE UNCHANGED <<modelVars, cancelled>>
    /\ UNCHANGED error

\* poll: the response says model_status "failed"
HealthFailed(h) ==
    /\ pollPc' = PollAfterFailed
    /\ IF mounted
       THEN /\ modelStatus' = h.model_status
            /\ modelLoading' = FALSE
            /\ error' = ModelFailedMessage(h)
       ELSE UNCHANGED <<modelStatus, modelLoading, error>>
    /\ UNCHANGED <<modelReady, cancelled>>

\* poll: the response says neither, the loop goes on to its wait
HealthPending(h) ==
    /\ pollPc' = "wait"
    /\ IF mounted
       THEN /\ modelStatus' = h.model_status
            /\ modelLoading' = h.model_loading
       ELSE UNCHANGED <<modelStatus, modelLoading>>
    /\ UNCHANGED <<modelReady, cancelled, error>>

\* poll: checkHealth resolved with h
HealthResponse(h) ==
    /\ pollPc = "query"
    /\ IF h.model_loaded THEN HealthLoaded(h)
       ELSE IF h.model_status = "failed" THEN HealthFailed(h)
       ELSE HealthPending(h)
    /\ lastOp' = "HealthResponse"
    /\ lastArg' = h
    /\ UNCHANGED <<state, audioFile, scriptText, progress, generationStage,
                   isPlaying, taskId, audioMetadata, outputMetadata,
                   streamVars, pendingVars, mounted, downloadHref>>

\* poll: checkHealth threw (fetch rejected, or the response was not ok)
HealthUnreachable ==
    /\ pollPc = "query"
    /\ pollPc' = "wait"
    /\ IF mounted
       THEN /\ modelLoading' = TRUE
            /\ modelStatus' = "connecting"
       ELSE UNCHANGED <<modelLoading, modelStatus>>
    /\ lastOp' = "HealthUnreachable"
    /\ lastArg' = NoArg
    /\ UNCHANGED <<sessionVars, modelReady, streamVars, pendingVars,
                   cancelled, mounted, downloadHref>>

\* a loop that never tests `cancelled`
PollContinuesAlways == TRUE

\* a loop that gives up after its first wait
PollContinuesNever == FALSE

\* the loop condition: while (!cancelled)
PollContinues == ~cancelled

\* poll: the 3 s wait is over, the loop tests its condition
PollWake ==
    /\ pollPc = "wait"
    /\ pollPc' = IF PollContinues THEN "query" ELSE "done"
    /\ lastOp' = "PollWake"
    /\ lastArg' = NoArg
    /\ UNCHANGED <<sessionVars, modelVars, streamVars, pendingVars,
                   cancelled, mounted, downloadHref>>

(* ------------------------------ teardown ------------------------------- *)
\* a teardown that cancels the poller but leaves the stream alone
UnmountLeavesStream ==
    /\ mounted
    /\ mounted' = FALSE
    /\ UNCHANGED <<esOpen, esClosed, doubleClose>>
    /\ cancelled' = TRUE
    /\ lastOp' = "Unmount"
    /\ lastArg' = NoArg
    /\ UNCHANGED <<sessionVars, modelVars, eventSourceRef, esCreated,
                   pendingVars, pollPc, downloadHref>>

\* the cleanups of the two effects, run when the component unmounts
Unmount ==
    /\ mounted
    /\ mounted' = FALSE
    /\ IF eventSourceRef # NoStream
       THEN CloseStream(eventSourceRef)
       ELSE UNCHANGED <<esOpen, esClosed, doubleClose>>
    /\ cancelled' = TRUE
    /\ lastOp' = "Unmount"
    /\ lastArg' = NoArg
    /\ UNCHANGED <<sessionVars, modelVars, eventSourceRef, esCreated,
                   pendingVars, pollPc, downloadHref>>

(* ------------------- the component as it is rendered ------------------- *)
SelectFile == \E f \in Files : RenderUpload /\ handleAudioSelect(f)
ClearFile == RenderFileControls /\ handleAudioClear
ClickProcess == RenderFileControls /\ handleProcessAudio
UploadSucceeds == \E d \in UploadResponses : UploadResolved(d)
UploadFails == \E f \in UploadFailures : UploadRejected(f)
TypeScript ==
    \E v \in TypedTexts : RenderScript /\ v # scriptText /\ EditScript(v)
ClickTag ==
    \E tag \in Tags :
        /\ RenderScript
        /\ Len(scriptText) + 3 <= MaxScriptLen
        /\ insertTag(tag)
ClickGenerate ==
    /\ RenderGenerate
    /\ esCreated < MaxStreams
    /\ handleGenerateVoice
StreamProgress == \E es \in esOpen, d \in ProgressEvents : EsProgress(es, d)
StreamComplete == \E es \in esOpen, d \in CompleteEvents : EsComplete(es, d)
StreamError == \E es \in esOpen, e \in ErrorEvents : EsError(es, e)
ClickDownload == RenderComplete /\ handleDownload
ClickReset == RenderComplete /\ handleReset
ClickPlayback == RenderComplete /\ togglePlayback
ClickDismiss == RenderError /\ DismissError
HealthAnswers == \E h \in HealthResponses : HealthResponse(h)

Next ==
    \/ SelectFile
    \/ ClearFile
    \/ ClickProcess
    \/ UploadSucceeds
    \/ UploadFails
    \/ ProcessedTimer
    \/ TypeScript
    \/ ClickTag
    \/ ClickGenerate
    \/ StreamProgress
    \/ StreamComplete
    \/ StreamError
    \/ CompleteTimer
    \/ ClickDownload
    \/ ClickReset
    \/ ClickPlayback
    \/ ClickDismiss
    \/ HealthAnswers
    \/ HealthUnreachable
    \/ PollWake
    \/ Unmount

Spec == Init /\ [][Next]_vars

\* Spec with what the event loop guarantees: a timer that is due runs its
\* callback (the two deferred setState, the poll loop's wait)
SpecFair ==
    /\ Spec
    /\ WF_processedTimers(ProcessedTimer)
    /\ WF_completeTimers(CompleteTimer)
    /\ WF_pollPc(PollWake)

\* the backend answers a health query with model_loaded
HealthAnswersLoaded ==
    \E h \in HealthResponses : h.model_loaded /\ HealthResponse(h)

\* SpecFair with a backend that settles every health query and, asked again
\* and again, eventually answers that the model is loaded
SpecBackendLoads ==
    /\ SpecFair
    /\ WF_pollPc(HealthAnswers \/ HealthUnreachable)
    /\ SF_pollPc(HealthAnswersLoaded)

\* SpecFair with a network that settles: an upload in flight is answered or
\* fails, and an open generation stream delivers complete, an error, or drops
SpecNetworkSettles ==
    /\ SpecFair
    /\ WF_uploadsInFlight(UploadSucceeds \/ UploadFails)
    /\ WF_esOpen(StreamComplete \/ StreamError)


(* --------------------- the API client's URL builder -------------------- *)
\* the component before any event, about to call getGenerateUrl(p)
InitUrl ==
    /\ state = "idle"
    /\ audioFile = Null
    /\ scriptText = << >>
    /\ progress = 0
    /\ generationStage = ""
    /\ isPlaying = FALSE
    /\ error = Null
    /\ modelReady = FALSE
    /\ modelLoading = TRUE
    /\ modelStatus = "connecting"
    /\ taskId = Null
    /\ audioMetadata = None
    /\ outputMetadata = None
    /\ eventSourceRef = NoStream
    /\ esCreated = 0
    /\ esOpen = {}
    /\ esClosed = {}
    /\ doubleClose = FALSE
    /\ uploadsInFlight = 0
    /\ processedTimers = 0
    /\ completeTimers = 0
    /\ pollPc = "query"
    /\ cancelled = FALSE
    /\ mounted = TRUE
    /\ downloadHref = None
    /\ lastOp = "params"
    /\ \E p \in GenerateParams : lastArg = [params |-> p]

\* the call getGenerateUrl(p)
CallGetGenerateUrl ==
    /\ lastOp = "params"
    /\ lastOp' = "getGenerateUrl"
    /\ lastArg' = [params |-> lastArg.params,
                   url |-> getGenerateUrl(lastArg.params)]
    /\ UNCHANGED <<sessionVars, modelVars, streamVars, pendingVars, pollVars,
                   mounted, downloadHref>>

NextUrl == CallGetGenerateUrl

SpecUrl == InitUrl /\ [][NextUrl]_vars

(* ------------- the handlers called where the render offers none -------- *)
\* The triggers of section 8 of the specification that the rendered
\* component never delivers: handleGenerateVoice without a task id or with a
\* blank script, handleProcessAudio without a file, handleDownload without a
\* task id.
InvalidGenerate ==
    /\ mounted
    /\ taskId = Null \/ Trim(scriptText) = << >>
    /\ esCreated < MaxStreams
    /\ handleGenerateVoice
InvalidProcess == mounted /\ audioFile = Null /\ handleProcessAudio
InvalidDownload == mounted /\ taskId = Null /\ handleDownload

NextInvalid ==
    \/ Next
    \/ InvalidGenerate
    \/ InvalidProcess
    \/ InvalidDownload

SpecInvalid == Init /\ [][NextInvalid]_vars

(* ============================== claims ================================= *)

\* C1: in every reachable state at most one generation stream is open (a
\* second stream is opened only after the first was closed).
C1_AtMostOneOpenStream == Cardinality(esOpen) <= 1
\* a second stream is open after the first one was closed
C1_Witness == esCreated = 2 /\ esOpen = {2}

PostUploadStates == {"processed", "script-uploaded", "generating", "complete"}

\* C3 as stated: taskId is non-null if and only if state is processed,
\* script-uploaded, generating or complete.
C3_TaskIdIffPostUpload ==
    mounted => (taskId # Null <=> state \in PostUploadStates)
\* C3 amended: taskId is non-null if and only if state is processed,
\* script-uploaded, generating or complete, or state is processing and the
\* upload response has been handled with the deferred switch to processed
\* still pending.
C3_TaskIdIffPostUploadOrDeferred ==
    mounted =>
        (taskId # Null <=>
            \/ state \in PostUploadStates
            \/ state = "processing" /\ processedTimers > 0)
\* the interval between the upload response and the deferred switch
C3_Witness ==
    mounted /\ state = "processing" /\ taskId # Null /\ processedTimers > 0

\* C4 as stated: outputMetadata is non-null if and only if state is complete.
C4_OutputIffComplete ==
    mounted => (outputMetadata # None <=> state = "complete")
\* C4 amended: outputMetadata is non-null if and only if state is complete,
\* or state is generating and the complete event has been handled with the
\* deferred switch to complete still pending.
C4_OutputIffCompleteOrDeferred ==
    mounted =>
        (outputMetadata # None <=>
            \/ state = "complete"
            \/ state = "generating" /\ completeTimers > 0)
\* the interval between the complete event and the deferred switch
C4_Witness ==
    mounted /\ state = "generating" /\ outputMetadata # None
            /\ completeTimers > 0 /\ esOpen = {}

\* the transition table: <<from, trigger, to>>
TransitionTable ==
    {<<"idle", "handleAudioSelect", "audio-uploaded">>,
     <<"audio-uploaded", "handleAudioClear", "idle">>,
     <<"audio-uploaded", "handleProcessAudio", "processing">>,
     <<"processing", "ProcessedTimer", "processed">>,
     <<"processing", "UploadRejected", "audio-uploaded">>,
     <<"processed", "EditScript", "script-uploaded">>,
     <<"processed", "insertTag", "script-uploaded">>,
     <<"script-uploaded", "EditScript", "processed">>,
     <<"script-uploaded", "handleGenerateVoice", "generating">>,
     <<"generating", "CompleteTimer", "complete">>,
     <<"generating", "EsError", "script-uploaded">>}
     \cup {<<s, "handleReset", "idle">> : s \in EngineState}

\* C5: every change of state follows an edge of the transition table, taken
\* by the trigger the table names for it.
C5_TransitionsFollowTable ==
    [][state' # state => <<state, lastOp', state'>> \in TransitionTable]_vars
\* the error-recovery edge generating -> script-uploaded has been taken
C5_Witness == lastOp = "EsError" /\ state = "script-uploaded"

C7_InvalidTriggersAreNoOps ==
    [][
        (\/ /\ lastOp' = "handleGenerateVoice"
            /\ taskId = Null \/ Trim(scriptText) = << >>
         \/ lastOp' = "handleProcessAudio" /\ audioFile = Null
         \/ lastOp' = "handleDownload" /\ taskId = Null)
        => UNCHANGED <<sessionVars, modelVars, streamVars, pendingVars,
                       pollVars, mounted, downloadHref>>
    ]_vars
\* handleGenerateVoice ran on a script of blanks and left the session alone
C7_Witness ==
    /\ lastOp = "handleGenerateVoice"
    /\ taskId # Null /\ scriptText # << >> /\ Trim(scriptText) = << >>
    /\ state = "processed" /\ esOpen = {}

\* C8: the session enters generating, and a stream is opened, only from
\* script-uploaded with modelReady true.
C8_GenerateNeedsModelReady ==
    [][
        (state' = "generating" /\ state # "generating") \/ esCreated' # esCreated
        => modelReady /\ state = "script-uploaded"
    ]_vars
\* generation was started with the model ready
C8_Witness ==
    lastOp = "handleGenerateVoice" /\ state = "generating" /\ modelReady

\* C9: an error event or a connection drop while generating closes the
\* stream, clears the handle, sets error (the payload's message if it has
\* one, a generic message otherwise) and returns to script-uploaded with
\* scriptText and taskId unchanged.
C9_StreamErrorRecovers ==
    [][
        lastOp' = "EsError" =>
            /\ state = "generating" /\ state' = "script-uploaded"
            /\ eventSourceRef # NoStream /\ eventSourceRef \notin esOpen'
            /\ eventSourceRef' = NoStream
            /\ error' # Null
            /\ lastArg'.error # Null => error' = lastArg'.error
            /\ lastArg'.error = Null =>
                   error' \in {"Generation failed", "Connection to server lost"}
            /\ scriptText' = scriptText /\ taskId' = taskId
            /\ taskId # Null /\ Trim(scriptText) # << >>
    ]_vars
\* a dropped connection was handled
C9_Witness ==
    /\ lastOp = "EsError" /\ error = "Connection to server lost"
    /\ state = "script-uploaded" /\ esOpen = {}

\* C10: a failed upload returns the session from processing to
\* audio-uploaded with error set to a message, the file retained and taskId
\* and audioMetadata still null, so that the upload can be retried.
C10_UploadFailureRecovers ==
    [][
        lastOp' = "UploadRejected" /\ mounted =>
            /\ state = "processing" /\ state' = "audio-uploaded"
            /\ error' # Null
            /\ lastArg'.detail # Null => error' = lastArg'.detail
            /\ audioFile' = audioFile /\ audioFile # Null
            /\ taskId' = Null /\ audioMetadata' = None
            /\ RenderFileControls'
    ]_vars
\* an upload refused without a detail was handled
C10_Witness ==
    /\ lastOp = "UploadRejected" /\ error = "Upload failed (500)"
    /\ state = "audio-uploaded" /\ audioFile # Null


\* C11: the complete listener stores the payload, sets progress to 100 and
\* closes the stream at once while state stays generating; state is
\* generating as long as the deferred switch is pending, the switch sets
\* complete, and a mounted session with the switch pending reaches complete.
C11_CompleteThenDeferredSwitch ==
    /\ [][
          /\ lastOp' = "EsComplete" =>
                /\ state = "generating" /\ state' = "generating"
                /\ outputMetadata' = Some(lastArg') /\ progress' = 100
                /\ eventSourceRef \notin esOpen' /\ eventSourceRef' = NoStream
                /\ completeTimers' = completeTimers + 1
          /\ mounted /\ completeTimers' > 0 => state' = "generating"
          /\ mounted /\ lastOp' = "CompleteTimer" =>
                state = "generating" /\ state' = "complete"
       ]_vars
    /\ (mounted /\ completeTimers > 0) ~> (state = "complete" \/ ~mounted)
\* the deferred switch has run and the session is complete
C11_Witness ==
    /\ lastOp = "CompleteTimer" /\ state = "complete" /\ progress = 100
    /\ outputMetadata # None /\ esOpen = {}

\* C12: a progress event is applied only from the stream of the running
\* generation, which is open and has never been closed, with no deferred
\* switch pending; once the complete event is handled progress stays 100.
C12_NoProgressAfterTermination ==
    /\ [][lastOp' = "EsProgress" =>
            /\ state = "generating"
            /\ esOpen = {eventSourceRef}
            /\ eventSourceRef \notin esClosed
            /\ completeTimers = 0
         ]_vars
    /\ [](mounted /\ (completeTimers > 0 \/ state = "complete")
            => progress = 100)
\* an error event has ended a generation whose progress event was applied
C12_Witness ==
    /\ lastOp = "EsError" /\ esOpen = {}
    /\ progress = 42 /\ generationStage = "Vocoding"

\* C13: once the component is unmounted no generation stream is open.
C13_NoStreamAfterUnmount == ~mounted => esOpen = {}
\* the component was unmounted while generating and its stream is closed
C13_Witness ==
    /\ lastOp = "Unmount" /\ state = "generating"
    /\ eventSourceRef # NoStream /\ eventSourceRef \in esClosed
    /\ esOpen = {}

\* C14 as stated: no stream is closed twice, every close hits a stream that
\* is open, and every close clears the stored handle.
C14_ClosedOnceHandleCleared ==
    [][/\ ~doubleClose'
       /\ esClosed' # esClosed =>
            /\ (esClosed' \ esClosed) \subseteq esOpen
            /\ eventSourceRef' = NoStream
      ]_vars
\* C14 amended: no stream is closed twice and every close hits a stream that
\* is open; the closes on complete, error and reset clear the stored handle,
\* the close on teardown keeps it, and nothing is closed after teardown.
C14_ClosedOnceHandleClearedUnlessTeardown ==
    [][/\ ~doubleClose'
       /\ esClosed' # esClosed =>
            /\ (esClosed' \ esClosed) \subseteq esOpen
            /\ mounted
            /\ IF lastOp' = "Unmount"
               THEN eventSourceRef' = eventSourceRef /\ ~mounted'
               ELSE eventSourceRef' = NoStream
      ]_vars
\* two streams were opened; the first was closed by its error listener, the
\* second by the teardown, which left the handle in place
C14_Witness ==
    /\ lastOp = "Unmount" /\ esClosed = {1, 2} /\ esOpen = {}
    /\ eventSourceRef = 2 /\ ~doubleClose

\* C15: handling a health response with model_loaded ends the poller and,
\* while mounted, sets modelReady; modelReady never goes back to false, an
\* ended poller never queries again, and modelReady implies the poller ended.
C15_LoadedStopsPolling ==
    /\ [][/\ lastOp' = "HealthResponse" /\ lastArg'.model_loaded =>
                /\ pollPc' = "done"
                /\ mounted => modelReady'
          /\ modelReady => modelReady'
          /\ pollPc = "done" => pollPc' = "done"
         ]_vars
    /\ [](modelReady => pollPc = "done")
\* the model was reported loaded and the session was reset afterwards
C15_Witness ==
    /\ lastOp = "handleReset" /\ state = "idle"
    /\ modelReady /\ pollPc = "done"

\* C16: handling a health response with model_status "failed" and
\* model_loaded false ends the poller and, while mounted, sets the
\* model-failure message; from then on the status stays failed, the poller
\* stays ended, modelReady stays false and no generation is started.
C16_FailedStopsPollingForGood ==
    /\ [][/\ ( /\ lastOp' = "HealthResponse"
               /\ ~lastArg'.model_loaded
               /\ lastArg'.model_status = "failed" ) =>
                /\ pollPc' = "done"
                /\ ~modelReady'
                /\ mounted =>
                     /\ modelStatus' = "failed"
                     /\ error' \in {"Model failed to load: CUDA OOM",
                                    "Model failed to load: unknown error"}
          /\ modelStatus = "failed" =>
                /\ modelStatus' = "failed"
                /\ lastOp' # "handleGenerateVoice"
         ]_vars
    /\ [](modelStatus = "failed" => ~modelReady /\ pollPc = "done")
\* the model failed, the message was dismissed, and a session with a script
\* ready still cannot generate
C16_Witness ==
    /\ modelStatus = "failed" /\ pollPc = "done" /\ ~modelReady
    /\ state = "script-uploaded" /\ error = Null /\ mounted

\* C17: a health query that is answered neither loaded nor failed, or that
\* fails, sends the poller to its wait; the wait of a poller that was not
\* cancelled is followed by another query; and with a backend that eventually
\* answers loaded, a mounted session whose poller has not ended reaches
\* modelReady unless the model fails or the component is unmounted first.
C17_PollRetriesUntilLoaded ==
    /\ [][/\ ( \/ lastOp' = "HealthUnreachable"
               \/ /\ lastOp' = "HealthResponse"
                  /\ ~lastArg'.model_loaded
                  /\ lastArg'.model_status # "failed" ) =>
                pollPc = "query" /\ pollPc' = "wait"
          /\ lastOp' = "PollWake" /\ mounted /\ ~modelReady =>
                pollPc = "wait" /\ pollPc' = "query"
         ]_vars
    /\ (mounted /\ pollPc # "done")
          ~> (modelReady \/ ~mounted \/ modelStatus = "failed")
\* after an unreachable backend the poller has waited and queries again
C17_Witness ==
    /\ lastOp = "PollWake" /\ pollPc = "query" /\ mounted
    /\ modelStatus = "connecting" /\ ~modelReady

\* C18: once the component is unmounted the poller starts no health query:
\* a query in flight may settle, the wait ends the loop, and an ended loop
\* stays ended.
C18_NoQueryAfterUnmount ==
    [][~mounted =>
          /\ pollPc' = "query" => pollPc = "query"
          /\ pollPc = "wait" => pollPc' \in {"wait", "done"}
          /\ pollPc = "done" => pollPc' = "done"
      ]_vars
\* the component was unmounted while the model was still loading and the
\* poller's wait ended the loop
C18_Witness ==
    /\ ~mounted /\ lastOp = "PollWake" /\ pollPc = "done"
    /\ ~modelReady /\ modelStatus # "failed"

\* C19: handling a health response with model_loaded changes nothing but
\* modelReady, modelLoading and modelStatus (and ends the poller): the
\* session, its error message, the stream and the pending work are unchanged.
C19_LoadedResponseFrame ==
    [][lastOp' = "HealthResponse" /\ lastArg'.model_loaded =>
          /\ UNCHANGED <<state, audioFile, scriptText, taskId, audioMetadata,
                         outputMetadata, progress, generationStage,
                         isPlaying, error>>
          /\ UNCHANGED <<streamVars, pendingVars, downloadHref, mounted>>
          /\ mounted =>
                /\ modelReady' /\ ~modelLoading'
                /\ modelStatus' = lastArg'.model_status
      ]_vars
\* a session waiting with a script was told that the model is loaded
C19_Witness ==
    /\ lastOp = "HealthResponse" /\ modelReady /\ mounted
    /\ state = "script-uploaded" /\ taskId # Null /\ esCreated = 0

\* C20 as stated: while mounted, handling an upload rejection, a stream
\* error or drop, a model-failed health response or a failed health query
\* leaves the error message non-null.
C20_EveryFailureSetsError ==
    [][( /\ mounted
         /\ \/ lastOp' \in {"UploadRejected", "EsError", "HealthUnreachable"}
            \/ /\ lastOp' = "HealthResponse"
               /\ ~lastArg'.model_loaded
               /\ lastArg'.model_status = "failed" )
       => error' # Null
      ]_vars
\* C20 amended: while mounted, handling an upload rejection, a stream error
\* or drop, or a model-failed health response leaves the error message
\* non-null; a failed health query leaves the error message as it was and
\* shows the connecting banner instead.
C20_FailuresSetErrorOrConnecting ==
    [][/\ ( /\ mounted
            /\ \/ lastOp' \in {"UploadRejected", "EsError"}
               \/ /\ lastOp' = "HealthResponse"
                  /\ ~lastArg'.model_loaded
                  /\ lastArg'.model_status = "failed" )
          => error' # Null
       /\ mounted /\ lastOp' = "HealthUnreachable" =>
            /\ error' = error
            /\ modelLoading' /\ ~modelReady'
            /\ modelStatus' = "connecting"
      ]_vars
\* a health query failed and no error message is set
C20_Witness ==
    /\ lastOp = "HealthUnreachable" /\ mounted /\ error = Null
    /\ modelLoading /\ modelStatus = "connecting"

\* C21: a taskId that is set keeps its value in every step, except that
\* handleReset sets it to null.
C21_TaskIdImmutableUntilReset ==
    [][taskId # Null =>
          \/ taskId' = taskId
          \/ lastOp' = "handleReset" /\ taskId' = Null
      ]_vars
\* two generations of one session have failed and the task id is still the
\* one the upload assigned
C21_Witness ==
    /\ lastOp = "EsError" /\ esCreated = 2 /\ mounted
    /\ taskId # Null /\ audioMetadata = Some([task_id |-> taskId, quality_score |-> 87])

\* C22: handleDownload, called in any state, changes no field of the
\* session, of the model readiness, of the stream or of the pending work;
\* with a taskId the link it clicks is the API base, "/api/download/" and
\* the taskId, and without one it clicks nothing.
C22_DownloadFrame ==
    [][lastOp' = "handleDownload" =>
          /\ UNCHANGED <<sessionVars, modelVars, streamVars, pendingVars,
                         pollVars, mounted>>
          /\ IF taskId # Null
             THEN downloadHref' =
                     Some(<<"http://localhost:8000", "/api/download/", taskId>>)
             ELSE UNCHANGED downloadHref
      ]_vars
\* the output was downloaded while it was playing
C22_Witness ==
    /\ lastOp = "handleDownload" /\ state = "complete" /\ isPlaying
    /\ taskId = "abc123"
    /\ downloadHref = Some(<<"http://localhost:8000", "/api/download/", "abc123">>)

\* C23: the query of the URL getGenerateUrl returns has, in this order and
\* once each, the keys task_id, text and those optional parameters whose
\* value is a number, 0 included; null and undefined contribute no key, and
\* the value of a present parameter is the number as a string.
C23_GenerateUrlKeys ==
    lastOp = "getGenerateUrl" =>
        LET p == lastArg.params
            q == lastArg.url.query
            present == SelectSeq(OptionalKeys,
                                 LAMBDA k : p[k] \in {Num(0), Num(1)})
            keys == [i \in DOMAIN q |-> q[i][1]]
        IN  /\ keys = <<"task_id", "text">> \o present
            /\ q[1][2] = p.task_id /\ q[2][2] = p.text
            /\ \A i \in 3..Len(q) :
                   q[i][2] = IF p[q[i][1]] = Num(0) THEN "0" ELSE "1"
\* a URL was built from a present 0, a null, an undefined and a present 1
C23_Witness ==
    /\ lastOp = "getGenerateUrl"
    /\ lastArg.params.max_tokens = Num(0)
    /\ lastArg.params.cfg_scale = JsNull
    /\ lastArg.params.temperature = Undefined
    /\ lastArg.params.top_p = Num(1)
    /\ lastArg.params.cfg_filter_top_k = Undefined
    /\ lastArg.url.query =
          <<<<"task_id", "abc123">>, <<"text", <<"x">>>>,
            <<"max_tokens", "0">>, <<"top_p", "1">>>>

\* C24: state is idle exactly when no audio file is held.
C24_IdleIffNoFile == (state = "idle") <=> (audioFile = Null)
\* the file was removed after an upload of it had failed
C24_Witness ==
    /\ lastOp = "handleAudioClear" /\ state = "idle" /\ audioFile = Null
    /\ error # Null /\ mounted

\* C25 as stated: in every state the stored handle is non-null exactly when a
\* stream is open, and a stream is open only while state is generating.
C25_HandleIffStreamOpen ==
    /\ (eventSourceRef # NoStream) <=> (esOpen # {})
    /\ esOpen # {} => state = "generating"
\* C25 amended: while the component is mounted the stored handle is non-null
\* exactly when a stream is open; an open stream is the one the handle holds
\* and is open only while state is generating; after teardown no stream is
\* open, whatever the handle holds.
C25_HandleIffStreamOpenWhileMounted ==
    /\ mounted => ((eventSourceRef # NoStream) <=> (esOpen # {}))
    /\ esOpen \subseteq {eventSourceRef} \ {NoStream}
    /\ esOpen # {} => state = "generating"
    /\ ~mounted => esOpen = {}
\* the second generation of a session is streaming progress
C25_Witness ==
    /\ lastOp = "EsProgress" /\ mounted /\ state = "generating"
    /\ esCreated = 2 /\ eventSourceRef = 2 /\ esOpen = {2}

\* C26: handleReset runs with no upload in flight and no deferred switch
\* pending and leaves no stream open; a mounted session in idle stays in idle
\* with audioFile, taskId, audioMetadata and outputMetadata null in every
\* step but handleAudioSelect, and no upload continuation, deferred switch
\* or stream listener runs while the session is in idle.
C26_NothingPendingAfterReset ==
    [][/\ lastOp' = "handleReset" =>
            /\ uploadsInFlight = 0 /\ processedTimers = 0
            /\ completeTimers = 0
            /\ UNCHANGED pendingVars
            /\ esOpen' = {}
            /\ state' = "idle"
       /\ mounted /\ state = "idle" =>
            \/ lastOp' = "handleAudioSelect"
            \/ /\ state' = "idle" /\ audioFile' = Null /\ taskId' = Null
               /\ audioMetadata' = None /\ outputMetadata' = None
       /\ mounted /\ state = "idle" =>
            lastOp' \notin {"UploadResolved", "UploadRejected",
                            "ProcessedTimer", "CompleteTimer", "EsProgress",
                            "EsComplete", "EsError"}
      ]_vars
\* after a reset the user has selected a file for the next session
C26_Witness ==
    /\ lastOp = "handleAudioSelect" /\ state = "audio-uploaded" /\ mounted
    /\ esClosed # {} /\ taskId = Null /\ outputMetadata = None
    /\ uploadsInFlight = 0 /\ processedTimers = 0 /\ completeTimers = 0

\* C27: modelReady, once true, is true after every step, and handleReset
\* leaves modelReady, modelLoading and modelStatus unchanged.
C27_ModelReadyMonotone ==
    [][/\ modelReady => modelReady'
       /\ lastOp' = "handleReset" => UNCHANGED modelVars
      ]_vars
\* a session that generated twice was reset and the model is still ready
C27_Witness ==
    /\ lastOp = "handleReset" /\ esCreated = 2
    /\ modelReady /\ ~modelLoading /\ modelStatus = "ready"

\* C28: a mounted session in processing reaches processed or audio-uploaded
\* and a mounted session in generating reaches complete or script-uploaded,
\* unless the component is unmounted first; processing is left only by the
\* deferred switch to processed or by the upload failure to audio-uploaded,
\* generating only by the deferred switch to complete or by the error
\* listener to script-uploaded, and either of them by handleReset to idle.
C28_WaitingStatesTerminate ==
    /\ [][/\ state = "processing" /\ state' # "processing" =>
                \/ lastOp' = "ProcessedTimer" /\ state' = "processed"
                \/ lastOp' = "UploadRejected" /\ state' = "audio-uploaded"
                \/ lastOp' = "handleReset" /\ state' = "idle"
          /\ state = "generating" /\ state' # "generating" =>
                \/ lastOp' = "CompleteTimer" /\ state' = "complete"
                \/ lastOp' = "EsError" /\ state' = "script-uploaded"
                \/ lastOp' = "handleReset" /\ state' = "idle"
         ]_vars
    /\ (mounted /\ state = "processing")
          ~> (state \in {"processed", "audio-uploaded"} \/ ~mounted)
    /\ (mounted /\ state = "generating")
          ~> (state \in {"complete", "script-uploaded"} \/ ~mounted)
\* the upload of a session was answered and the deferred switch has run
C28_Witness ==
    /\ lastOp = "ProcessedTimer" /\ state = "processed" /\ mounted
    /\ taskId # Null /\ uploadsInFlight = 0 /\ processedTimers = 0

====
